---- MODULE Spec2Model ----
(***************************************************************************)
(* FSB5 container decoder (fsb5/src/lib.rs, fsb5/src/pcm.rs).              *)
(*                                                                         *)
(* Three entry points are modelled, each under its own specification:      *)
(*   Spec        FSB5::read over a byte stream (a seekable cursor)         *)
(*   SpecBits    the bit-field helper bits(val, start, len)                *)
(*   SpecRebuild FSB5::rebuild / pcm::rebuild on a container and a sample  *)
(*                                                                         *)
(* 64-bit machine words are functions 0..63 -> {0,1} (bit 0 = least        *)
(* significant), so that shifts and masks keep their width.                *)
(***************************************************************************)
EXTENDS Integers, Sequences, FiniteSets, TLC

VARIABLES
    rd,        \* the activation of FSB5::read: stream, cursor, locals, result
    layout,    \* the container description the input stream was written from
    bitsCall,  \* one call of bits(): build, arguments, returned value
    rb         \* one call of FSB5::rebuild: build, container, argument, result

vars == <<rd, layout, bitsCall, rb>>

----------------------------------------------------------------------------
(* Bounds of the model.                                                    *)

\* Largest number of samples in a generated container.
MaxSamples == 2
\* Largest payload length (bytes) of a sample handed to rebuild.
MaxPayload == 5
\* Largest sample-frame count of a sample handed to rebuild.
MaxFrames == 2

(* Program constants.                                                      *)

\* Width of the word bits() works on (u64).
WordBits == 64
\* Data offsets are stored in units of 16 bytes (lib.rs 234: `* 16`).
OffsetUnit == 16
OffsetShift == 4

----------------------------------------------------------------------------
(* Machine words: a u64 is the sequence of its 64 bits, least significant  *)
(* first (w[k + 1] is bit k).                                              *)

Pow2(n) == 2 ^ n

Min(a, b) == IF a < b THEN a ELSE b

BitIdx == 1 .. WordBits

ZeroWord == [k \in BitIdx |-> 0]

\* The literal 1 as a u64.
OneWord == [k \in BitIdx |-> IF k = 1 THEN 1 ELSE 0]

\* read_u64::<LittleEndian> of 8 bytes, and read_u32::<LittleEndian> of 4
\* bytes widened with `as u64`: byte j holds bits 8j .. 8j+7.
LEWord(bytes) ==
    [k \in BitIdx |->
        IF ((k - 1) \div 8) < Len(bytes)
        THEN (bytes[((k - 1) \div 8) + 1] \div Pow2((k - 1) % 8)) % 2
        ELSE 0]

\* w << n and w >> n for n < 64.
WShl(w, n) == [k \in BitIdx |-> IF k > n THEN w[k - n] ELSE 0]
WShr(w, n) == [k \in BitIdx |-> IF k + n <= WordBits THEN w[k + n] ELSE 0]
WAnd(a, b) == [k \in BitIdx |-> a[k] * b[k]]

\* w - 1 for a nonzero word.
WSub1(w) ==
    LET t == CHOOSE k \in BitIdx : w[k] = 1 /\ \A j \in 1 .. (k - 1) : w[j] = 0
    IN  [k \in BitIdx |-> IF k < t THEN 1 ELSE IF k = t THEN 0 ELSE w[k]]

\* a + b and a - b, wrapping; a < b.
RECURSIVE WAddFrom(_, _, _, _)
WAddFrom(a, b, k, carry) ==
    IF k > WordBits THEN <<>>
    ELSE <<(a[k] + b[k] + carry) % 2>>
         \o WAddFrom(a, b, k + 1, (a[k] + b[k] + carry) \div 2)
WAdd(a, b) == WAddFrom(a, b, 1, 0)
WSub(a, b) == WAddFrom(a, [k \in BitIdx |-> 1 - b[k]], 1, 1)
WLess(a, b) ==
    \E k \in BitIdx : a[k] < b[k] /\ \A j \in (k + 1) .. WordBits : a[j] = b[j]

\* `as usize` / `as u32` of a word (the values met here fit the target).
RECURSIVE WNatFrom(_, _)
WNatFrom(w, k) == IF k > WordBits THEN 0 ELSE w[k] + 2 * WNatFrom(w, k + 1)
WNat(w) == WNatFrom(w, 1)

\* The word holding bits start .. start+len-1 of val, moved down to bit 0.
Field(val, start, len) ==
    [k \in BitIdx |->
        IF k <= len /\ start + k <= WordBits THEN val[start + k] ELSE 0]

----------------------------------------------------------------------------
(* bits(val, start, len), lib.rs 201-205.                                  *)
(* `1 << stop` and `r >> start` with a shift amount of 64 overflow: with   *)
(* overflow checks (a debug build) the call panics, without them (a        *)
(* release build) the shift amount is taken modulo 64.                     *)

Returned(w) == [panic |-> FALSE, val |-> w]
Panicked == [panic |-> TRUE, val |-> ZeroWord]

bits(checks, val, start, len) ==
    LET stop == start + len
    IN  IF checks /\ (stop >= WordBits \/ start >= WordBits)
        THEN Panicked
        ELSE LET r == WAnd(val, WSub1(WShl(OneWord, stop % WordBits)))
             IN  Returned(WShr(r, start % WordBits))

----------------------------------------------------------------------------
(* SpecBits: bits() applied to words, starts and widths within the word.   *)

BitsVals ==
    { LEWord(<<255, 255, 255, 255, 255, 255, 255, 255>>),
      LEWord(<<0, 0, 0, 0, 4, 0, 0, 0>>),
      LEWord(<<165, 90, 1, 128, 60, 195, 0, 129>>) }

NoRet == [panic |-> FALSE, val |-> <<>>]

BitsIdle == [checks |-> FALSE, val |-> ZeroWord, start |-> 0, len |-> 0,
             called |-> FALSE, ret |-> NoRet]

BitsInit ==
    bitsCall \in { [checks |-> c, val |-> v, start |-> s, len |-> l,
                    called |-> FALSE, ret |-> NoRet] :
                   c \in BOOLEAN, v \in BitsVals,
                   s \in 0 .. WordBits, l \in 0 .. WordBits }
    /\ bitsCall.start + bitsCall.len <= WordBits

BitsApply ==
    /\ ~bitsCall.called
    /\ bitsCall' = [bitsCall EXCEPT
                      !.called = TRUE,
                      !.ret = bits(bitsCall.checks, bitsCall.val,
                                   bitsCall.start, bitsCall.len)]
    /\ UNCHANGED <<rd, layout, rb>>

----------------------------------------------------------------------------
(* Byte-level helpers of the reader.                                       *)

\* read_u32::<LittleEndian> as a number (usize / u32). A value of 2^30 or
\* more is kept as 2^30: it lies past the end of every stream met here, and
\* no step tells two such values apart.
U32LE(b) ==
    IF b[4] < 64 THEN b[1] + 256 * b[2] + 65536 * b[3] + 16777216 * b[4]
    ELSE Pow2(30)

\* The 4 little-endian bytes of a u32.
U32Bytes(n) ==
    <<n % 256, (n \div 256) % 256, (n \div 65536) % 256, (n \div 16777216) % 256>>

\* b"FSB5"
FSB5Magic == <<70, 83, 66, 53>>

\* The enum SoundFormat in declaration order; code v is SoundFormats[v + 1].
SoundFormats ==
    <<"None", "PCM8", "PCM16", "PCM24", "PCM32", "PCMFloat", "GCADPCM",
      "IMAADPCM", "VAG", "HEVAG", "XMA", "MPEG", "CELT", "AT9", "XWMA",
      "Vorbis">>

\* Error values (error.rs); arg is the carried value, as a sequence.
Err(name, arg) == [kind |-> "Err", name |-> name, arg |-> arg]
OkResult == [kind |-> "Ok", name |-> "", arg |-> <<>>]
PanicResult == [kind |-> "panic", name |-> "", arg |-> <<>>]
NoResult == [kind |-> "none", name |-> "", arg |-> <<>>]

\* Option<Vec<u8>>
None == [some |-> FALSE, bytes |-> <<>>]
Some(v) == [some |-> TRUE, bytes |-> v]

\* format!("{}", i): the decimal text of i, as bytes.
RECURSIVE Decimal(_)
Decimal(i) == IF i < 10 THEN <<48 + i>> ELSE Decimal(i \div 10) \o <<48 + (i % 10)>>

\* String::from_utf8 accepts exactly the well-formed UTF-8 byte sequences.
RECURSIVE Utf8From(_, _)
Utf8From(bs, k) ==
    IF k > Len(bs) THEN TRUE
    ELSE LET b == bs[k]
             In(j, lo, hi) == k + j <= Len(bs) /\ bs[k + j] >= lo /\ bs[k + j] <= hi
             Cont(j) == In(j, 128, 191)
         IN  CASE b < 128 -> Utf8From(bs, k + 1)
               [] b >= 194 /\ b <= 223 -> Cont(1) /\ Utf8From(bs, k + 2)
               [] b = 224 -> In(1, 160, 191) /\ Cont(2) /\ Utf8From(bs, k + 3)
               [] (b >= 225 /\ b <= 236) \/ b = 238 \/ b = 239 ->
                      Cont(1) /\ Cont(2) /\ Utf8From(bs, k + 3)
               [] b = 237 -> In(1, 128, 159) /\ Cont(2) /\ Utf8From(bs, k + 3)
               [] b = 240 -> In(1, 144, 191) /\ Cont(2) /\ Cont(3) /\ Utf8From(bs, k + 4)
               [] b >= 241 /\ b <= 243 ->
                      Cont(1) /\ Cont(2) /\ Cont(3) /\ Utf8From(bs, k + 4)
               [] b = 244 -> In(1, 128, 143) /\ Cont(2) /\ Cont(3) /\ Utf8From(bs, k + 4)
               [] OTHER -> FALSE
Utf8Valid(bs) == Utf8From(bs, 1)

\* The reader as a cursor over the stream: read_exact of n bytes succeeds
\* iff n bytes are left.
CanRead(s, n) == s.pos + n <= Len(s.stream)
Bytes(s, n) == SubSeq(s.stream, s.pos + 1, s.pos + n)

\* `?` on a failed read or seek: the parse ends with Error::IO.
IOErr(s) == [s EXCEPT !.pc = "err", !.result = Err("IO", <<>>)]
Fail(s, e) == [s EXCEPT !.pc = "err", !.result = e]
Panic(s) == [s EXCEPT !.pc = "panic", !.result = PanicResult]

\* The state of FSB5::read on entry.
RdStart(stream, checks) ==
    [stream |-> stream, pos |-> 0, pc |-> "magic", checks |-> checks,
     header |-> <<>>, raw_size |-> 0, i |-> 0, cur |-> <<>>, samples |-> <<>>,
     nametable_start |-> 0, samplename_offsets |-> <<>>, stderr |-> <<>>,
     result |-> NoResult]

Terminal == {"done", "err", "panic"}

----------------------------------------------------------------------------
(* FSB5::read, lib.rs 215-222: the magic check.                            *)

MagicStepNoCheck(s) ==
    IF ~CanRead(s, 4) THEN IOErr(s) ELSE [s EXCEPT !.pos = 0, !.pc = "header"]

MagicStep(s) ==
    IF ~CanRead(s, 4) THEN IOErr(s)
    ELSE LET magic == Bytes(s, 4)
         IN  IF magic # FSB5Magic
             THEN Fail([s EXCEPT !.pos = s.pos + 4], Err("MagicHeader", magic))
             ELSE [s EXCEPT !.pos = 0, !.pc = "header"]

(* FSB5Header::read, lib.rs 91-127. The fixed part is 60 bytes; a version  *)
(* 0 header holds 4 more. The mode is converted after the last read.       *)
FSB5HeaderRead(stream, pos) ==
    LET at(o, n) == SubSeq(stream, pos + o + 1, pos + o + n)
        short == [ok |-> FALSE, err |-> Err("IO", <<>>), header |-> <<>>]
    IN  IF pos + 60 > Len(stream) THEN short
        ELSE LET version == U32LE(at(4, 4))
                 extra == IF version = 0 THEN 4 ELSE 0
                 mode == U32LE(at(24, 4))
             IN  IF pos + 60 + extra > Len(stream) THEN short
                 ELSE IF mode >= Len(SoundFormats)
                 THEN [ok |-> FALSE, err |-> Err("SoundFormat", <<mode>>), header |-> <<>>]
                 ELSE [ok |-> TRUE, err |-> NoResult,
                       header |->
                         [id |-> at(0, 4),
                          version |-> version,
                          num_samples |-> U32LE(at(8, 4)),
                          sample_headers_size |-> U32LE(at(12, 4)),
                          name_table_size |-> U32LE(at(16, 4)),
                          data_size |-> U32LE(at(20, 4)),
                          mode |-> SoundFormats[mode + 1],
                          zero |-> at(28, 8),
                          hash |-> at(36, 16),
                          dummy |-> at(52, 8),
                          unknown |-> IF version = 0 THEN U32LE(at(60, 4)) ELSE 0,
                          size |-> pos + 60 + extra]]

\* Where the parse goes once the sample descriptors are read (lib.rs 288, 306).
AfterSamples(h) == IF h.name_table_size > 0 THEN "offsets" ELSE "seek"

\* lib.rs 223-229: the header, raw_size, the head of the descriptor loop.
HeaderStep(s) ==
    LET r == FSB5HeaderRead(s.stream, s.pos)
    IN  IF ~r.ok THEN Fail(s, r.err)
        ELSE LET h == r.header
             IN  [s EXCEPT
                    !.pos = h.size,
                    !.header = <<h>>,
                    !.raw_size = h.size + h.sample_headers_size
                                 + h.name_table_size + h.data_size,
                    !.i = 0,
                    !.pc = IF h.num_samples > 0 THEN "sample" ELSE AfterSamples(h)]

----------------------------------------------------------------------------
(* MetadataChunk::read, lib.rs 155-199: the body of one chunk, read at     *)
(* pos. Yields the decoded chunk and the cursor after it, or the error.    *)

Chunk(tag, vals, blob) == [tag |-> tag, vals |-> vals, blob |-> blob]

MetadataChunkRead(stream, pos, chunk_size, chunk_type) ==
    LET at(o, n) == SubSeq(stream, pos + o + 1, pos + o + n)
        has(n) == pos + n <= Len(stream)
        io == [ok |-> FALSE, err |-> Err("IO", <<>>), chunk |-> <<>>, pos |-> pos]
        got(c, n) == [ok |-> TRUE, err |-> NoResult, chunk |-> c, pos |-> pos + n]
        blob(tag) == IF has(chunk_size)
                     THEN got(Chunk(tag, <<>>, at(0, chunk_size)), chunk_size)
                     ELSE io
    IN  CASE chunk_type = 1 ->
                IF has(1) THEN got(Chunk("Channels", at(0, 1), <<>>), 1) ELSE io
          [] chunk_type = 2 ->
                IF has(4) THEN got(Chunk("Frequency", <<U32LE(at(0, 4))>>, <<>>), 4) ELSE io
          [] chunk_type = 3 ->
                IF has(8)
                THEN got(Chunk("Loop", <<U32LE(at(0, 4)), U32LE(at(4, 4))>>, <<>>), 8)
                ELSE io
          [] chunk_type = 6 -> blob("XMASeek")
          [] chunk_type = 7 -> blob("DSPCOEFF")
          [] chunk_type = 10 -> blob("XWMAData")
          [] chunk_type = 11 ->
                IF has(4 + chunk_size)
                THEN got(Chunk("VorbisData", <<U32LE(at(0, 4))>>, at(4, chunk_size)),
                         4 + chunk_size)
                ELSE io
          [] OTHER ->
                [ok |-> FALSE, err |-> Err("MetadataChunkType", <<chunk_type>>),
                 chunk |-> <<>>, pos |-> pos]

\* HashMap::insert: a later chunk of a type replaces an earlier one.
Insert(m, k, v) == [x \in (DOMAIN m) \cup {k} |-> IF x = k THEN v ELSE m[x]]

----------------------------------------------------------------------------
(* FSB5::read, lib.rs 230-237: one 64-bit sample descriptor. The data      *)
(* offset, a usize of up to 32 bits, is kept as a word.                    *)

SampleStep(s) ==
    IF ~CanRead(s, 8) THEN IOErr(s)
    ELSE LET raw == LEWord(Bytes(s, 8))
             next_chunk == bits(s.checks, raw, 0, 1)
             frequency == bits(s.checks, raw, 1, 4)
             channels == bits(s.checks, raw, 1 + 4, 1)
             data_offset == bits(s.checks, raw, 1 + 4 + 1, 28)
             self_samples == bits(s.checks, raw, 1 + 4 + 1 + 28, 30)
             t == [s EXCEPT !.pos = s.pos + 8]
         IN  IF \E b \in {next_chunk, frequency, channels, data_offset, self_samples} :
                    b.panic
             THEN Panic(t)
             ELSE [t EXCEPT
                     !.cur = [next_chunk |-> WNat(next_chunk.val),
                              frequency |-> WNat(frequency.val),
                              channels |-> WNat(channels.val) + 1,
                              data_offset |-> WShl(data_offset.val, OffsetShift),
                              samples |-> WNat(self_samples.val),
                              chunks |-> <<>>],
                     !.pc = IF WNat(next_chunk.val) # 0 THEN "chunk" ELSE "resolve"]

(* lib.rs 238-256: one turn of the chunk loop. An unrecognized type is     *)
(* printed to stderr and the loop goes on with `continue`.                 *)

ChunkStepSkipPayload(s) ==
    IF ~CanRead(s, 4) THEN IOErr(s)
    ELSE LET raw == LEWord(Bytes(s, 4))
             next_chunk == WNat(bits(s.checks, raw, 0, 1).val)
             chunk_size == WNat(bits(s.checks, raw, 1, 24).val)
             chunk_type == WNat(bits(s.checks, raw, 1 + 24, 7).val)
             m == MetadataChunkRead(s.stream, s.pos + 4, chunk_size, chunk_type)
             next == IF next_chunk # 0 THEN "chunk" ELSE "resolve"
         IN  IF m.ok
             THEN [s EXCEPT !.pos = m.pos,
                            !.cur.next_chunk = next_chunk,
                            !.cur.chunks = Insert(s.cur.chunks, chunk_type, m.chunk),
                            !.pc = next]
             ELSE IF m.err.name = "MetadataChunkType"
             THEN [s EXCEPT !.pos = s.pos + 4 + chunk_size,
                            !.cur.next_chunk = next_chunk,
                            !.stderr = Append(s.stderr, m.err),
                            !.pc = next]
             ELSE Fail([s EXCEPT !.pos = s.pos + 4], m.err)

ChunkStep(s) ==
    IF ~CanRead(s, 4) THEN IOErr(s)
    ELSE LET raw == LEWord(Bytes(s, 4))
             next_chunk == WNat(bits(s.checks, raw, 0, 1).val)
             chunk_size == WNat(bits(s.checks, raw, 1, 24).val)
             chunk_type == WNat(bits(s.checks, raw, 1 + 24, 7).val)
             m == MetadataChunkRead(s.stream, s.pos + 4, chunk_size, chunk_type)
             next == IF next_chunk # 0 THEN "chunk" ELSE "resolve"
         IN  IF m.ok
             THEN [s EXCEPT !.pos = m.pos,
                            !.cur.next_chunk = next_chunk,
                            !.cur.chunks = Insert(s.cur.chunks, chunk_type, m.chunk),
                            !.pc = next]
             ELSE IF m.err.name = "MetadataChunkType"
             THEN [s EXCEPT !.pos = s.pos + 4,
                            !.cur.next_chunk = next_chunk,
                            !.stderr = Append(s.stderr, m.err),
                            !.pc = next]
             ELSE Fail([s EXCEPT !.pos = s.pos + 4], m.err)

(* lib.rs 258-286: the sample rate is resolved and the sample pushed.      *)

\* The coarse frequency codes 1..9 (lib.rs 261-270).
FrequencyTable == <<8000, 11000, 11025, 16000, 22050, 24000, 32000, 44100, 48000>>

ResolveTableFirst(chunks, frequency) ==
    IF frequency >= 1 /\ frequency <= Len(FrequencyTable)
    THEN [ok |-> TRUE, frequency |-> FrequencyTable[frequency]]
    ELSE IF 2 \in DOMAIN chunks /\ chunks[2].tag = "Frequency"
    THEN [ok |-> TRUE, frequency |-> chunks[2].vals[1]]
    ELSE [ok |-> FALSE, frequency |-> frequency]

ResolveFrequency(chunks, frequency) ==
    IF 2 \in DOMAIN chunks /\ chunks[2].tag = "Frequency"
    THEN [ok |-> TRUE, frequency |-> chunks[2].vals[1]]
    ELSE IF frequency >= 1 /\ frequency <= Len(FrequencyTable)
    THEN [ok |-> TRUE, frequency |-> FrequencyTable[frequency]]
    ELSE [ok |-> FALSE, frequency |-> frequency]

ResolveStep(s) ==
    LET f == ResolveFrequency(s.cur.chunks, s.cur.frequency)
        h == s.header[1]
    IN  IF ~f.ok THEN Fail(s, Err("Frequency", <<f.frequency>>))
        ELSE [s EXCEPT
                !.samples = Append(s.samples,
                              [name |-> Decimal(s.i),
                               frequency |-> f.frequency,
                               channels |-> s.cur.channels,
                               data_offset |-> s.cur.data_offset,
                               samples |-> s.cur.samples,
                               metadata |-> s.cur.chunks,
                               data |-> None]),
                !.i = s.i + 1,
                !.pc = IF s.i + 1 < h.num_samples THEN "sample" ELSE AfterSamples(h)]

----------------------------------------------------------------------------
(* FSB5::read, lib.rs 288-304: the name table.                             *)

\* lib.rs 289-294: the table of name offsets, one u32 per sample.
OffsetsStep(s) ==
    LET n == s.header[1].num_samples
    IN  IF ~CanRead(s, 4 * n) THEN IOErr(s)
        ELSE [s EXCEPT
                !.nametable_start = s.pos,
                !.samplename_offsets =
                    [k \in 1 .. n |->
                        U32LE(SubSeq(s.stream, s.pos + 4 * (k - 1) + 1, s.pos + 4 * k))],
                !.pos = s.pos + 4 * n,
                !.i = 0,
                !.pc = IF Len(s.samples) > 0 THEN "name" ELSE "seek"]

\* BufRead::read_until(delim, buf) from pos: every byte up to and including
\* the first delim, or up to the end of the stream when there is none.
ReadUntil(stream, pos, delim) ==
    LET hits == { k \in (pos + 1) .. Len(stream) : stream[k] = delim }
        stop == IF hits = {} THEN Len(stream)
                ELSE CHOOSE k \in hits : \A j \in hits : k <= j
    IN  IF pos >= Len(stream) THEN [buf |-> <<>>, pos |-> pos]
        ELSE [buf |-> SubSeq(stream, pos + 1, stop), pos |-> stop]

\* lib.rs 296-303: the name of sample i.
NameStep(s) ==
    LET r == ReadUntil(s.stream, s.nametable_start + s.samplename_offsets[s.i + 1], 0)
        t == [s EXCEPT !.pos = r.pos]
    IN  IF ~Utf8Valid(r.buf) THEN Fail(t, Err("NameTable", <<s.i>>))
        ELSE [t EXCEPT
                !.samples[s.i + 1].name = r.buf,
                !.i = s.i + 1,
                !.pc = IF s.i + 1 < Len(s.samples) THEN "name" ELSE "seek"]

(* FSB5::read, lib.rs 306-325: the data segment.                           *)

\* lib.rs 306-308: the cursor is put at the start of the data segment.
SeekStep(s) ==
    LET h == s.header[1]
    IN  [s EXCEPT
           !.pos = h.size + h.sample_headers_size + h.name_table_size,
           !.i = 0,
           !.pc = IF h.num_samples > 0 THEN "data" ELSE "done",
           !.result = IF h.num_samples > 0 THEN s.result ELSE OkResult]

\* Vec::with_capacity(n): room for n bytes, and no element.
VecWithCapacity(n) == <<>>

\* A usize read from a u32 field, as a word.
UsizeWord(n) == LEWord(U32Bytes(n))

\* lib.rs 309-319: the payload of sample i. `data_end - data_start` below
\* zero panics (subtraction overflow, or capacity overflow without the
\* checks). read_exact fills the buffer it is given, which has the length
\* of `data`.
DataStep(s) ==
    LET h == s.header[1]
        data_start == s.samples[s.i + 1].data_offset
        data_end == IF s.i < h.num_samples - 1
                    THEN s.samples[s.i + 2].data_offset
                    ELSE WAdd(data_start, UsizeWord(h.data_size))
    IN  IF WLess(data_end, data_start) THEN Panic(s)
        ELSE LET buf == VecWithCapacity(WSub(data_end, data_start))
             IN  IF ~CanRead(s, Len(buf)) THEN IOErr(s)
                 ELSE [s EXCEPT
                         !.samples[s.i + 1].data = Some(Bytes(s, Len(buf))),
                         !.pos = s.pos + Len(buf),
                         !.i = s.i + 1,
                         !.pc = IF s.i + 1 < h.num_samples THEN "data" ELSE "done",
                         !.result = IF s.i + 1 < h.num_samples
                                    THEN s.result ELSE OkResult]

\* One step of FSB5::read from control point s.pc.
Step(s) ==
    CASE s.pc = "magic" -> MagicStep(s)
      [] s.pc = "header" -> HeaderStep(s)
      [] s.pc = "sample" -> SampleStep(s)
      [] s.pc = "chunk" -> ChunkStep(s)
      [] s.pc = "resolve" -> ResolveStep(s)
      [] s.pc = "offsets" -> OffsetsStep(s)
      [] s.pc = "name" -> NameStep(s)
      [] s.pc = "seek" -> SeekStep(s)
      [] s.pc = "data" -> DataStep(s)
      [] OTHER -> s

\* FSB5::read run to its end.
RECURSIVE Run(_)
Run(s) == IF s.pc \in Terminal THEN s ELSE Run(Step(s))

----------------------------------------------------------------------------
(* Input streams. A layout describes a container; Encode writes it out in  *)
(* the byte layout the reader above takes apart.                           *)

\* Blocks of 16 bytes in the data segment of a generated container.
DataBlocks == 2

BitOf(v, b) == (v \div Pow2(b)) % 2

\* The n low bytes of a word, least significant first.
WordBytes(w, n) ==
    [j \in 1 .. n |->
        w[8 * j - 7] + 2 * w[8 * j - 6] + 4 * w[8 * j - 5] + 8 * w[8 * j - 4]
        + 16 * w[8 * j - 3] + 32 * w[8 * j - 2] + 64 * w[8 * j - 1] + 128 * w[8 * j]]

\* The sample descriptor (lib.rs 231-235): flag 1 bit, frequency code 4,
\* channels - 1 1 bit, data offset / 16 28 bits, frames 30 bits.
DescWord(flag, freq, chan, off, frames) ==
    [k \in BitIdx |->
        LET b == k - 1
        IN  IF b = 0 THEN flag
            ELSE IF b < 5 THEN BitOf(freq, b - 1)
            ELSE IF b = 5 THEN chan
            ELSE IF b < 34 THEN BitOf(off, b - 6)
            ELSE BitOf(frames, b - 34)]

\* The chunk header (lib.rs 240-242): flag 1 bit, size 24 bits, type 7 bits.
ChunkWord(flag, size, type) ==
    [k \in BitIdx |->
        LET b == k - 1
        IN  IF b = 0 THEN flag
            ELSE IF b < 25 THEN BitOf(size, b - 1)
            ELSE IF b < 32 THEN BitOf(type, b - 25)
            ELSE 0]

RECURSIVE EncodeChain(_, _)
EncodeChain(chain, k) ==
    IF k > Len(chain) THEN <<>>
    ELSE WordBytes(ChunkWord(IF k < Len(chain) THEN 1 ELSE 0,
                             chain[k].size, chain[k].type), 4)
         \o chain[k].body \o EncodeChain(chain, k + 1)

\* The data offset (in units of 16 bytes) of sample k of n.
OffsetOf(pattern, k, n) ==
    CASE pattern = "asc" -> k - 1
      [] pattern = "pair" -> Min(k - 1, 1)
      [] OTHER -> n - k

EncodeSample(L, k) ==
    LET sm == L.samples[k]
    IN  WordBytes(DescWord(IF Len(sm.chain) > 0 THEN 1 ELSE 0, sm.freq, sm.chan,
                           OffsetOf(L.offs, k, Len(L.samples)), sm.frames), 8)
        \o EncodeChain(sm.chain, 1)

RECURSIVE EncodeSamples(_, _)
EncodeSamples(L, k) ==
    IF k > Len(L.samples) THEN <<>> ELSE EncodeSample(L, k) \o EncodeSamples(L, k + 1)

\* The name written for sample k (without its terminator).
NameOf(kind, k) ==
    CASE kind = "ascii" -> <<110, 48 + k>>
      [] kind = "utf8" -> <<195, 169, 48 + k>>
      [] OTHER -> <<110, 255>>

RECURSIVE NameBlock(_, _, _)
NameBlock(kind, k, n) ==
    IF k > n THEN <<>> ELSE NameOf(kind, k) \o <<0>> \o NameBlock(kind, k + 1, n)

\* Offset of name k from the start of the name table (the offsets come first).
NameOffset(kind, k, n) == 4 * n + Len(NameBlock(kind, 1, k - 1))

RECURSIVE NameOffsets(_, _, _)
NameOffsets(kind, k, n) ==
    IF k > n THEN <<>>
    ELSE U32Bytes(NameOffset(kind, k, n)) \o NameOffsets(kind, k + 1, n)

NameTable(L) ==
    IF L.names = "none" THEN <<>>
    ELSE NameOffsets(L.names, 1, Len(L.samples)) \o NameBlock(L.names, 1, Len(L.samples))

DataSegment == [j \in 1 .. (OffsetUnit * DataBlocks) |-> j]

EncodeHeader(L) ==
    L.magic \o U32Bytes(L.version) \o U32Bytes(Len(L.samples))
    \o U32Bytes(Len(EncodeSamples(L, 1))) \o U32Bytes(Len(NameTable(L)))
    \o U32Bytes(Len(DataSegment)) \o U32Bytes(L.mode)
    \o [j \in 1 .. 8 |-> 0] \o [j \in 1 .. 16 |-> 160 + j] \o [j \in 1 .. 8 |-> 0]
    \o (IF L.version = 0 THEN U32Bytes(7) ELSE <<>>)

Whole(L) == EncodeHeader(L) \o EncodeSamples(L, 1) \o NameTable(L) \o DataSegment

\* The stream of layout L: the whole container, or its first L.cut bytes.
Encode(L) == IF L.cut < 0 THEN Whole(L) ELSE SubSeq(Whole(L), 1, L.cut)

----------------------------------------------------------------------------
(* The containers the reader is run on.                                    *)

ChunkOf(type, size, body) == [type |-> type, size |-> size, body |-> body]

CChannels == ChunkOf(1, 1, <<2>>)
CFrequency == ChunkOf(2, 4, U32Bytes(12345))
CFrequency2 == ChunkOf(2, 4, U32Bytes(777))
CLoop == ChunkOf(3, 8, U32Bytes(1) \o U32Bytes(7))
CXMASeek == ChunkOf(6, 2, <<9, 8>>)
CDSPCoeff == ChunkOf(7, 0, <<>>)
CXWMAData == ChunkOf(10, 1, <<6>>)
CVorbis == ChunkOf(11, 2, U32Bytes(513) \o <<5, 6>>)
\* Chunks of a type the decoder does not know, without and with a payload.
CUnknownEmpty == ChunkOf(99, 0, <<>>)
CUnknown == ChunkOf(99, 4, <<3, 0, 0, 2>>)
CUnknown8 == ChunkOf(8, 12, <<16, 2, 0, 0, 0, 0, 0, 0, 1, 2, 3, 4>>)

SampleOf(freq, chan, frames, chain) ==
    [freq |-> freq, chan |-> chan, frames |-> frames, chain |-> chain]

SampleChoices ==
    { SampleOf(8, 0, 1, <<>>),
      SampleOf(0, 0, 1, <<CFrequency>>),
      SampleOf(0, 1, 0, <<>>),
      SampleOf(15, 0, 1, <<CChannels>>),
      SampleOf(12, 0, 1, <<CFrequency>>),
      SampleOf(9, 1, 3, <<CFrequency, CLoop, CFrequency2>>),
      SampleOf(5, 0, 1, <<CUnknownEmpty>>),
      SampleOf(5, 1, 1, <<CUnknown, CChannels>>),
      SampleOf(3, 0, 1, <<CXMASeek, CUnknown8>>),
      SampleOf(1, 0, 2, <<CDSPCoeff, CXWMAData, CVorbis>>) }

SampleSeqs == UNION { [1 .. n -> SampleChoices] : n \in 0 .. MaxSamples }

\* Samples without a chunk, for the containers whose interest lies elsewhere.
PlainChoices == { SampleOf(8, 0, 1, <<>>), SampleOf(4, 1, 2, <<>>) }

PlainSeqs == UNION { [1 .. n -> PlainChoices] : n \in 0 .. MaxSamples }

LayoutOf(magic, version, mode, names, offs, samples, cut) ==
    [magic |-> magic, version |-> version, mode |-> mode, names |-> names,
     offs |-> offs, samples |-> samples, cut |-> cut]

\* Well-formed containers: version, mode, kind of name table, offset pattern.
Variants == { <<1, 11, "none", "asc">>, <<0, 2, "ascii", "pair">> }

\* Names that are not ASCII or not UTF-8, offsets that go down.
NameVariants == { <<1, 15, "utf8", "desc">>, <<1, 1, "bad", "asc">> }

GoodLayouts ==
    { LayoutOf(FSB5Magic, v[1], v[2], v[3], v[4], ss, -1) :
        v \in Variants, ss \in SampleSeqs }
    \cup
    { LayoutOf(FSB5Magic, v[1], v[2], v[3], v[4], ss, -1) :
        v \in NameVariants, ss \in PlainSeqs }

\* Streams that do not start with the magic.
BadMagics == { <<70, 83, 66, 52>>, <<82, 73, 70, 70>>, <<0, 83, 66, 53>> }

BadMagicLayouts ==
    { LayoutOf(m, 1, 11, "ascii", "asc", ss, -1) : m \in BadMagics, ss \in PlainSeqs }

\* A mode outside the enumeration.
BadModeLayouts ==
    { LayoutOf(FSB5Magic, v, 16, "none", "asc", <<sm>>, -1) :
        v \in {0, 1}, sm \in PlainChoices }

\* One container cut short at every length.
CutBase ==
    LayoutOf(FSB5Magic, 0, 2, "ascii", "asc",
             <<SampleOf(9, 1, 3, <<CFrequency, CLoop, CFrequency2>>),
               SampleOf(1, 0, 2, <<CDSPCoeff, CXWMAData, CVorbis>>)>>, -1)

CutLayouts ==
    { [CutBase EXCEPT !.cut = c] : c \in 0 .. (Len(Whole(CutBase)) - 1) }

\* The layout held while no stream is read.
IdleLayout == LayoutOf(FSB5Magic, 1, 11, "none", "asc", <<>>, -1)

Layouts == GoodLayouts \cup BadMagicLayouts \cup BadModeLayouts \cup CutLayouts

----------------------------------------------------------------------------
(* FSB5::rebuild, lib.rs 328-339, and pcm::rebuild, pcm.rs 5-26.           *)

\* The payload bytes samples handed to rebuild are cut from.
PayloadBytes == [j \in 1 .. MaxPayload |-> 16 + j]

\* hound's ChunksWriter on an in-memory cursor: a RIFF/WAVE file with a
\* 16-byte PCM fmt chunk and one data chunk.
WavBytes(spec, data) ==
    LET width == (spec.bits_per_sample + 7) \div 8
        fmt == <<1, 0>> \o <<spec.channels % 256, spec.channels \div 256>>
               \o U32Bytes(spec.sample_rate)
               \o U32Bytes(spec.sample_rate * spec.channels * width)
               \o <<(spec.channels * width) % 256, (spec.channels * width) \div 256>>
               \o <<spec.bits_per_sample % 256, spec.bits_per_sample \div 256>>
    IN  <<82, 73, 70, 70>> \o U32Bytes(36 + Len(data)) \o <<87, 65, 86, 69>>
        \o <<102, 109, 116, 32>> \o U32Bytes(16) \o fmt
        \o <<100, 97, 116, 97>> \o U32Bytes(Len(data)) \o data

RbOk(bytes) == [kind |-> "Ok", name |-> "", arg |-> <<>>, bytes |-> bytes]
RbErr(name, arg) == [kind |-> "Err", name |-> name, arg |-> arg, bytes |-> <<>>]
RbPanic == [kind |-> "panic", name |-> "", arg |-> <<>>, bytes |-> <<>>]
RbNone == [kind |-> "none", name |-> "", arg |-> <<>>, bytes |-> <<>>]

\* pcm.rs 5-26. `sample.data.unwrap()` panics on None and the slice
\* `[..samples * width]` panics when the payload is shorter than that.
PcmRebuild(sample, width) ==
    IF ~sample.data.some THEN RbPanic
    ELSE IF sample.samples * width > Len(sample.data.bytes) THEN RbPanic
    ELSE RbOk(WavBytes([channels |-> sample.channels % 65536,
                        sample_rate |-> sample.frequency,
                        bits_per_sample |-> width,
                        sample_format |-> "Int"],
                       SubSeq(sample.data.bytes, 1, sample.samples * width)))

\* lib.rs 328-339; the PCM arms exist only with the crate feature "pcm".
FSB5RebuildAllRaw(pcm, fsb, sample) ==
    IF sample.data.some THEN RbOk(sample.data.bytes) ELSE RbPanic

FSB5Rebuild(pcm, fsb, sample) ==
    LET mode == fsb.header.mode
    IN  CASE mode = "MPEG" ->
                IF sample.data.some THEN RbOk(sample.data.bytes) ELSE RbPanic
          [] pcm /\ mode = "PCM8" -> PcmRebuild(sample, 1)
          [] pcm /\ mode = "PCM16" -> PcmRebuild(sample, 2)
          [] pcm /\ mode = "PCM32" -> PcmRebuild(sample, 4)
          [] OTHER -> RbErr("RebuildFormat", <<mode>>)

\* A decoded sample as rebuild takes it.
RbSample(channels, frames, data) ==
    [name |-> Decimal(0), frequency |-> 44100, channels |-> channels,
     data_offset |-> ZeroWord, samples |-> frames, metadata |-> <<>>, data |-> data]

\* A decoded container of the given format holding the given samples.
RbContainer(mode, samples) ==
    [header |-> [id |-> FSB5Magic, version |-> 1, num_samples |-> Len(samples),
                 sample_headers_size |-> 8 * Len(samples), name_table_size |-> 0,
                 data_size |-> MaxPayload, mode |-> mode,
                 zero |-> [j \in 1 .. 8 |-> 0], hash |-> [j \in 1 .. 16 |-> 0],
                 dummy |-> [j \in 1 .. 8 |-> 0], unknown |-> 0, size |-> 60],
     raw_size |-> 60 + 8 * Len(samples) + MaxPayload,
     samples |-> samples]

RbIdle ==
    [pcm |-> FALSE, fsb |-> RbContainer("None", <<>>),
     sample |-> RbSample(1, 0, None), called |-> FALSE, ret |-> RbNone]

RbCalls ==
    { [pcm |-> p,
       fsb |-> RbContainer(SoundFormats[m], IF d.some THEN <<RbSample(c, f, d)>> ELSE <<>>),
       sample |-> RbSample(c, f, d), called |-> FALSE, ret |-> RbNone] :
        p \in BOOLEAN, m \in 1 .. Len(SoundFormats), c \in {1, 2},
        f \in 0 .. MaxFrames,
        d \in {None} \cup { Some(SubSeq(PayloadBytes, 1, n)) : n \in 0 .. MaxPayload } }

----------------------------------------------------------------------------
(* Specifications.                                                         *)

\* Spec: FSB5::read on every generated stream, in both builds.
Init ==
    /\ layout \in Layouts
    /\ rd \in { RdStart(Encode(layout), c) : c \in BOOLEAN }
    /\ bitsCall = BitsIdle
    /\ rb = RbIdle

Others == UNCHANGED <<layout, bitsCall, rb>>

ReadMagic == rd.pc = "magic" /\ rd' = MagicStep(rd) /\ Others
ReadHeader == rd.pc = "header" /\ rd' = HeaderStep(rd) /\ Others
ReadSample == rd.pc = "sample" /\ rd' = SampleStep(rd) /\ Others
ReadChunk == rd.pc = "chunk" /\ rd' = ChunkStep(rd) /\ Others
ResolveSample == rd.pc = "resolve" /\ rd' = ResolveStep(rd) /\ Others
ReadNameOffsets == rd.pc = "offsets" /\ rd' = OffsetsStep(rd) /\ Others
ReadName == rd.pc = "name" /\ rd' = NameStep(rd) /\ Others
SeekData == rd.pc = "seek" /\ rd' = SeekStep(rd) /\ Others
ReadData == rd.pc = "data" /\ rd' = DataStep(rd) /\ Others

Next ==
    \/ ReadMagic
    \/ ReadHeader
    \/ ReadSample
    \/ ReadChunk
    \/ ResolveSample
    \/ ReadNameOffsets
    \/ ReadName
    \/ SeekData
    \/ ReadData

Spec == Init /\ [][Next]_vars

\* SpecBits: one call of bits().
InitBits ==
    /\ BitsInit
    /\ layout = IdleLayout
    /\ rd = RdStart(<<>>, FALSE)
    /\ rb = RbIdle

NextBits == BitsApply

SpecBits == InitBits /\ [][NextBits]_vars

\* SpecRebuild: one call of FSB5::rebuild.
InitRebuild ==
    /\ rb \in RbCalls
    /\ layout = IdleLayout
    /\ rd = RdStart(<<>>, FALSE)
    /\ bitsCall = BitsIdle

Rebuild ==
    /\ ~rb.called
    /\ rb' = [rb EXCEPT !.called = TRUE,
                        !.ret = FSB5Rebuild(rb.pcm, rb.fsb, rb.sample)]
    /\ UNCHANGED <<rd, layout, bitsCall>>

NextRebuild == Rebuild

SpecRebuild == InitRebuild /\ [][NextRebuild]_vars

----------------------------------------------------------------------------
(* Properties of FSB5::read (checked under Spec).                          *)

Hdr == rd.header[1]

\* The chunk types MetadataChunk::read knows (lib.rs 157-195).
KnownTypes == {1, 2, 3, 6, 7, 10, 11}

\* The data segment as the header places it in the stream.
DataStart == Hdr.size + Hdr.sample_headers_size + Hdr.name_table_size
SegmentBytes(from, to) ==
    SubSeq(rd.stream, DataStart + from + 1,
           Min(DataStart + Min(to, Hdr.data_size), Len(rd.stream)))

\* A data offset as a number; one of 2^30 or more lies past every stream.
OffsetNat(w) == IF \A k \in 31 .. WordBits : w[k] = 0 THEN WNat(w) ELSE Pow2(30)

\* The range of the data segment that belongs to sample i (1-based).
PayloadRange(i) ==
    LET n == Len(rd.samples)
        from == OffsetNat(rd.samples[i].data_offset)
    IN  <<from, IF i < n THEN OffsetNat(rd.samples[i + 1].data_offset)
                ELSE from + Hdr.data_size>>

(* C1: after a successful read of a container with n >= 1 samples, every   *)
(* sample has a populated payload equal to the bytes of the data segment   *)
(* in [data_offset(i), data_offset(i+1)), and for the last sample in       *)
(* [data_offset(n-1), data_offset(n-1) + data_size); the payload of a      *)
(* sample that is not the last is data_offset(i+1) - data_offset(i) long.  *)
C1_PayloadsAreDataSlices ==
    (rd.pc = "done" /\ Len(rd.samples) >= 1) =>
        \A i \in 1 .. Len(rd.samples) :
            /\ rd.samples[i].data.some
            /\ rd.samples[i].data.bytes = SegmentBytes(PayloadRange(i)[1], PayloadRange(i)[2])
            /\ (i < Len(rd.samples) =>
                    Len(rd.samples[i].data.bytes) = PayloadRange(i)[2] - PayloadRange(i)[1])

\* The bytes from position p up to, not including, the first zero byte.
BeforeZero(stream, p) ==
    LET zeros == { k \in (p + 1) .. Len(stream) : stream[k] = 0 }
        z == IF zeros = {} THEN Len(stream) + 1
             ELSE CHOOSE k \in zeros : \A j \in zeros : k <= j
    IN  SubSeq(stream, p + 1, z - 1)

(* C2: with a name table (name_table_size > 0) the name of every sample is *)
(* the bytes from name-table start + offset[i] up to, and not including,   *)
(* the first zero byte; without one every name is the decimal text of the  *)
(* sample's index.                                                         *)
C2_NamesDropTerminator ==
    rd.pc = "done" =>
        \A i \in 1 .. Len(rd.samples) :
            IF Hdr.name_table_size > 0
            THEN rd.samples[i].name =
                     BeforeZero(rd.stream, rd.nametable_start + rd.samplename_offsets[i])
            ELSE rd.samples[i].name = Decimal(i - 1)

\* A layout without its chunks of unknown type (header and payload both).
RECURSIVE KnownOnly(_)
KnownOnly(chain) ==
    IF chain = <<>> THEN <<>>
    ELSE IF chain[1].type \in KnownTypes THEN <<chain[1]>> \o KnownOnly(Tail(chain))
    ELSE KnownOnly(Tail(chain))

Strip(L) ==
    [L EXCEPT !.samples = [k \in 1 .. Len(L.samples) |->
                              [L.samples[k] EXCEPT !.chain = KnownOnly(L.samples[k].chain)]]]

HasUnknown(L) ==
    \E k \in 1 .. Len(L.samples) : \E c \in 1 .. Len(L.samples[k].chain) :
        L.samples[k].chain[c].type \notin KnownTypes

(* C6: a chunk of a type outside {1,2,3,6,7,10,11}, of any declared size,  *)
(* does not abort the decode: the read completes and every sample is       *)
(* decoded to the values it has when the unknown chunk is absent from the  *)
(* chain.                                                                  *)
C6_UnknownChunkIsHarmless ==
    (rd.pc \in Terminal /\ layout.cut < 0 /\ HasUnknown(layout)) =>
        LET ref == Run(RdStart(Encode(Strip(layout)), rd.checks))
        IN  ref.pc = "done" => (rd.pc = "done" /\ rd.samples = ref.samples)

\* The table of lib.rs 261-270, code by code.
CoarseRate(code) ==
    CASE code = 1 -> 8000 [] code = 2 -> 11000 [] code = 3 -> 11025
      [] code = 4 -> 16000 [] code = 5 -> 22050 [] code = 6 -> 24000
      [] code = 7 -> 32000 [] code = 8 -> 44100 [] code = 9 -> 48000

(* C7: the resolved frequency of a decoded sample is the value of the      *)
(* Frequency chunk (type 2) of its metadata map when there is one,         *)
(* whatever the coarse code; otherwise the table value of coarse codes     *)
(* 1..9; with no such chunk and a coarse code of 0 or 10..15 the parse     *)
(* fails with Error::Frequency carrying the code. (rd.cur holds the        *)
(* descriptor fields of the sample pushed last.)                           *)
C7_FrequencyResolution ==
    /\ (rd.pc \in {"sample", "offsets", "name", "seek", "data", "done"}
        /\ Len(rd.samples) > 0) =>
           LET sm == rd.samples[Len(rd.samples)]
               code == rd.cur.frequency
           IN  /\ sm.metadata = rd.cur.chunks
               /\ IF 2 \in DOMAIN sm.metadata
                  THEN /\ sm.metadata[2].tag = "Frequency"
                       /\ sm.frequency = sm.metadata[2].vals[1]
                  ELSE code \in 1 .. 9 /\ sm.frequency = CoarseRate(code)
    /\ (rd.pc = "err" /\ rd.result.name = "Frequency") =>
           /\ 2 \notin DOMAIN rd.cur.chunks
           /\ rd.cur.frequency \notin 1 .. 9
           /\ rd.result = Err("Frequency", <<rd.cur.frequency>>)
    /\ rd.pc = "resolve" => rd.cur.frequency \in 0 .. 15

\* A sample with an unusable coarse code was decoded at its chunk's rate.
C7_Witness ==
    /\ rd.pc = "done" /\ Len(rd.samples) > 0
    /\ rd.cur.frequency \in {0} \cup (10 .. 15)
    /\ 2 \in DOMAIN rd.cur.chunks
    /\ rd.samples[Len(rd.samples)].frequency = 12345

(* C8: when the first 4 bytes of the stream are not FSB5, the read fails   *)
(* with Error::MagicHeader carrying those bytes, with exactly 4 bytes      *)
(* consumed: no header field, descriptor, name or data byte is read.       *)
C8_BadMagicStopsAtFour ==
    (Len(rd.stream) >= 4 /\ SubSeq(rd.stream, 1, 4) # <<70, 83, 66, 53>>
     /\ rd.pc # "magic") =>
        /\ rd.pc = "err"
        /\ rd.result = Err("MagicHeader", SubSeq(rd.stream, 1, 4))
        /\ rd.pos = 4
        /\ rd.header = <<>> /\ rd.samples = <<>> /\ rd.cur = <<>>
        /\ rd.samplename_offsets = <<>>

C8_Witness ==
    /\ rd.pc = "err" /\ rd.result.name = "MagicHeader"
    /\ Len(rd.stream) > 60 /\ rd.pos = 4

\* The type, size and continuation flag of the chunk header at position p,
\* from its bytes: bit 0, bits 1..24, bits 25..31.
HeaderType(stream, p) == stream[p + 4] \div 2
HeaderFlag(stream, p) == stream[p + 1] % 2
HeaderSize(stream, p) ==
    (stream[p + 1] \div 2) + 128 * stream[p + 2] + 32768 * stream[p + 3]
    + 8388608 * (stream[p + 4] % 2)

(* C10: reading a chunk header of an unrecognized type moves the cursor by *)
(* the 4 bytes of that header and by none of the declared payload bytes,   *)
(* adds nothing to the metadata map, and the loop goes on or stops by the  *)
(* continuation flag of that same header.                                  *)
C10_UnknownChunkFrame ==
    [][(rd.pc = "chunk" /\ CanRead(rd, 4)
        /\ HeaderType(rd.stream, rd.pos) \notin {1, 2, 3, 6, 7, 10, 11}) =>
           /\ rd'.pos = rd.pos + 4
           /\ rd'.cur.chunks = rd.cur.chunks
           /\ rd'.samples = rd.samples
           /\ rd'.pc = IF HeaderFlag(rd.stream, rd.pos) = 1 THEN "chunk" ELSE "resolve"
           /\ Len(rd'.stderr) = Len(rd.stderr) + 1]_vars

\* The loop is about to read its next header inside the unread payload of a
\* chunk of unknown type.
C10_Witness ==
    /\ rd.pc = "chunk" /\ Len(rd.stderr) > 0 /\ rd.pos >= 4
    /\ HeaderType(rd.stream, rd.pos - 4) \notin {1, 2, 3, 6, 7, 10, 11}
    /\ HeaderSize(rd.stream, rd.pos - 4) > 0
    /\ HeaderFlag(rd.stream, rd.pos - 4) = 1
    /\ rd.stderr[Len(rd.stderr)].arg = <<HeaderType(rd.stream, rd.pos - 4)>>

(* C11: for every recognized chunk type (1, 2, 3, 6, 7, 10, 11) and every  *)
(* declared chunk size, decoding the chunk body moves the cursor by        *)
(* exactly the declared size, so the next chunk header or descriptor is    *)
(* read at the byte right after the declared payload, and the cursor after *)
(* the last descriptor (the name-table start) is header.size +             *)
(* sample_headers_size.                                                    *)
C11_BodyAdvancesByDeclaredSize ==
    [][/\ (rd.pc = "chunk" /\ CanRead(rd, 4)
           /\ HeaderType(rd.stream, rd.pos) \in KnownTypes
           /\ rd'.pc \in {"chunk", "resolve"}) =>
              rd'.pos = rd.pos + 4 + HeaderSize(rd.stream, rd.pos)
       /\ (rd.pc = "offsets" /\ layout.cut < 0 /\ ~HasUnknown(layout)) =>
              rd.pos = Hdr.size + Hdr.sample_headers_size]_vars

----------------------------------------------------------------------------
(* Properties of bits() (checked under SpecBits).                          *)

(* C3: for every word val and every start, width with start + width <= 64  *)
(* (64 included) bits(val, start, width) does not fail and returns         *)
(* floor(val / 2^start) mod 2^width, that is bits start .. start+width-1   *)
(* of val.                                                                 *)
C3_BitsExtractsField ==
    bitsCall.called =>
        /\ ~bitsCall.ret.panic
        /\ bitsCall.ret.val = Field(bitsCall.val, bitsCall.start, bitsCall.len)

----------------------------------------------------------------------------
(* Properties of FSB5::rebuild (checked under SpecRebuild).                *)

PcmWidth(mode) == CASE mode = "PCM8" -> 1 [] mode = "PCM16" -> 2 [] mode = "PCM32" -> 4

\* The data block of a RIFF/WAVE file: the bytes of its "data" chunk.
WavDataBlock(bytes) ==
    LET len == U32LE(SubSeq(bytes, 41, 44))
    IN  IF Len(bytes) >= 44 /\ SubSeq(bytes, 37, 40) = <<100, 97, 116, 97>>
        THEN SubSeq(bytes, 45, Min(44 + len, Len(bytes)))
        ELSE <<>>

(* C4: for a PCM8, PCM16 or PCM32 container and a sample with a populated  *)
(* payload, rebuild returns bytes whose data block is the first            *)
(* frames x width bytes of the payload, whatever the payload's length and  *)
(* the channel count.                                                      *)
C4_PcmDataBlockIsPrefix ==
    (rb.called /\ rb.pcm /\ rb.fsb.header.mode \in {"PCM8", "PCM16", "PCM32"}
     /\ rb.sample.data.some) =>
        LET n == rb.sample.samples * PcmWidth(rb.fsb.header.mode)
        IN  /\ rb.ret.kind = "Ok"
            /\ WavDataBlock(rb.ret.bytes)
                   = SubSeq(rb.sample.data.bytes, 1, Min(n, Len(rb.sample.data.bytes)))

(* C5: for an MPEG, PCM8, PCM16 or PCM32 container, rebuild of a sample    *)
(* whose payload is absent returns Error::Mismatched as a value: no crash, *)
(* no bytes.                                                               *)
C5_AbsentPayloadIsMismatched ==
    (rb.called /\ ~rb.sample.data.some
     /\ (rb.fsb.header.mode = "MPEG"
         \/ (rb.pcm /\ rb.fsb.header.mode \in {"PCM8", "PCM16", "PCM32"}))) =>
        rb.ret = RbErr("Mismatched", <<>>)

(* C9: rebuild on an MPEG container returns the sample's payload           *)
(* unchanged; on a container of any format other than MPEG, PCM8, PCM16    *)
(* and PCM32 it fails with Error::RebuildFormat carrying the format; the   *)
(* container is the same after the call as before it.                      *)
C9_RebuildByFormat ==
    [][(~rb.called /\ rb'.called) =>
           /\ rb'.fsb = rb.fsb
           /\ (rb.fsb.header.mode = "MPEG" /\ rb.sample.data.some) =>
                  rb'.ret = RbOk(rb.sample.data.bytes)
           /\ rb.fsb.header.mode \notin {"MPEG", "PCM8", "PCM16", "PCM32"} =>
                  rb'.ret = RbErr("RebuildFormat", <<rb.fsb.header.mode>>)]_vars

C9_Witness ==
    /\ rb.called /\ rb.fsb.header.mode = "MPEG"
    /\ rb.ret.kind = "Ok" /\ rb.ret.bytes = PayloadBytes
    /\ rb.fsb.samples = <<rb.sample>>

====
